---------------------------- MODULE Spec2Model ----------------------------
(***************************************************************************)
(* A model of SiEPIC/ann/netlist.py: the netlist parser                    *)
(* (ObjectModelNetlist.parse_text / _parse_line), the port matcher         *)
(* (_match_ports) and the circuit reducer (connect_circuit).               *)
(*                                                                         *)
(* Python strings are TLA+ strings; `in`, str.replace, str.split, int(),   *)
(* float() and str() are computed character by character.  A Python        *)
(* exception is a result record whose err field names the exception.       *)
(* An s-parameter matrix is represented by its port dimension, a frequency *)
(* vector by a token.                                                      *)
(***************************************************************************)
EXTENDS Integers, Sequences, FiniteSets, TLC

(***************************************************************************)
(* Bounds of the model.                                                    *)
(***************************************************************************)
\* components (lines) of a generated circuit netlist
MaxComps == 3
\* ports (net tokens) of a generated circuit netlist, over all its components
MaxPorts == 5
\* highest internal net id of a generated circuit netlist
MaxNet == 1
\* lines of a netlist text drawn from LinePool
MaxLines == 2

(***************************************************************************)
(* Python string primitives.                                               *)
(***************************************************************************)
\* s[i:] for a 1-based i
Drop(s, i) == SubSeq(s, i, Len(s))

RECURSIVE Find(_, _, _)
\* s.find(sub, k) for 1-based positions: the first position from k on where
\* sub occurs in s, Len(s) + 1 when there is none
Find(s, sub, k) ==
    IF k + Len(sub) - 1 > Len(s) THEN Len(s) + 1
    ELSE IF SubSeq(s, k, k + Len(sub) - 1) = sub THEN k
    ELSE Find(s, sub, k + 1)

\* sub in s
Contains(sub, s) == Find(s, sub, 1) <= Len(s)

RECURSIVE Replace(_, _)
\* s.replace(old, '')
Replace(s, old) ==
    IF Len(s) < Len(old) THEN s
    ELSE IF SubSeq(s, 1, Len(old)) = old
         THEN Replace(Drop(s, Len(old) + 1), old)
         ELSE SubSeq(s, 1, 1) \o Replace(Drop(s, 2), old)

RECURSIVE Split(_, _)
RECURSIVE SplitAt(_, _, _)
\* s.split(sep), sep not empty
Split(s, sep) == SplitAt(s, sep, Find(s, sep, 1))

\* s.split(sep), i being the first position of sep in s
SplitAt(s, sep, i) ==
    IF i > Len(s) THEN <<s>>
    ELSE <<SubSeq(s, 1, i - 1)>> \o Split(Drop(s, i + Len(sep)), sep)

Digits == <<"0", "1", "2", "3", "4", "5", "6", "7", "8", "9">>

IsDigit(c) == \E d \in 1..Len(Digits) : Digits[d] = c

DigitVal(c) == (CHOOSE d \in 1..Len(Digits) : Digits[d] = c) - 1

AllDigits(s) == \A i \in 1..Len(s) : IsDigit(SubSeq(s, i, i))

RECURSIVE DigitsVal(_)
\* the value of a digit string; 0 for the empty one
DigitsVal(s) ==
    IF Len(s) = 0 THEN 0
    ELSE 10 * DigitsVal(SubSeq(s, 1, Len(s) - 1)) + DigitVal(SubSeq(s, Len(s), Len(s)))

HasSign(s) == Len(s) > 0 /\ SubSeq(s, 1, 1) \in {"+", "-"}

Unsigned(s) == IF HasSign(s) THEN Drop(s, 2) ELSE s

Signed(s, v) == IF HasSign(s) /\ SubSeq(s, 1, 1) = "-" THEN -v ELSE v

\* int(s): [ok, val]; not ok is ValueError
int(s) ==
    LET u == Unsigned(s)
    IN  IF Len(u) > 0 /\ AllDigits(u)
        THEN [ok |-> TRUE, val |-> Signed(s, DigitsVal(u))]
        ELSE [ok |-> FALSE, val |-> 0]

\* str(n) of an integer n
str(n) == ToString(n)

\* the float of the literal s, whose unsigned part splits at "." into parts
FloatOfParts(s, parts) ==
    LET whole == parts[1]
        frac  == IF Len(parts) = 2 THEN parts[2] ELSE ""
    IN  IF /\ Len(parts) <= 2
           /\ AllDigits(whole) /\ AllDigits(frac)
           /\ Len(whole) + Len(frac) > 0
        THEN [ok |-> TRUE,
              val |-> <<Signed(s, DigitsVal(whole \o frac)), -Len(frac)>>]
        ELSE [ok |-> FALSE, val |-> <<>>]

\* float(s) of a decimal literal [sign] digits [. digits]: [ok, val], val the
\* pair <<mantissa, exponent>> standing for mantissa * 10^exponent; not ok is
\* ValueError
float(s) == FloatOfParts(s, Split(Unsigned(s), "."))

\* x * 10^k for a float <<mantissa, exponent>>
Scale(x, k) == <<x[1], x[2] + k>>

\* lines 415-422 of strToSci, base being float(number[:-1])
SciOf(ex, base) ==
    IF ~base.ok THEN [err |-> "ValueError", val |-> <<>>]
    ELSE IF ex = "m" THEN [err |-> "", val |-> Scale(base.val, -3)]
    ELSE IF ex = "u" THEN [err |-> "", val |-> Scale(base.val, -6)]
    ELSE IF ex = "n" THEN [err |-> "", val |-> Scale(base.val, -9)]
    ELSE [err |-> "TypeError", val |-> <<>>]

\* strToSci(number): [err, val]
strToSci(number) ==
    IF Len(number) = 0 THEN [err |-> "IndexError", val |-> <<>>]
    ELSE SciOf(SubSeq(number, Len(number), Len(number)),
               float(SubSeq(number, 1, Len(number) - 1)))

(***************************************************************************)
(* Component records (SiEPIC.ann.models.components).                       *)
(***************************************************************************)
\* the type names the component registry knows
ComponentTypes == {"ebeam_wg_integral_1550", "ebeam_bdc_te1550", "ebeam_y_1550"}

\* the local `component = None` of _parse_line
NoComponent == [tag |-> "None"]

\* create_component_by_name(name): [ok, component]; not ok is the lookup
\* failure.  An unset field (None) is the empty tuple.
create_component_by_name(name) ==
    IF name \in ComponentTypes
    THEN [ok |-> TRUE,
          component |-> [tag |-> "Component", type |-> name, nets |-> <<>>,
                         lay_x |-> <<>>, lay_y |-> <<>>, radius |-> <<>>,
                         length |-> <<>>, width |-> <<>>, points |-> <<>>]]
    ELSE [ok |-> FALSE, component |-> NoComponent]

(***************************************************************************)
(* ObjectModelNetlist._parse_line.                                         *)
(***************************************************************************)
RECURSIVE SplitWs(_)
RECURSIVE SplitWsAt(_, _)
\* line.split(): the maximal runs of non-blank characters
SplitWs(line) ==
    IF Len(line) = 0 THEN <<>>
    ELSE IF SubSeq(line, 1, 1) = " " THEN SplitWs(Drop(line, 2))
    ELSE SplitWsAt(line, Find(line, " ", 1))

\* line.split() of a line that starts a token, stop being where the token ends
SplitWsAt(line, stop) ==
    <<SubSeq(line, 1, stop - 1)>> \o SplitWs(Drop(line, stop))

\* line 180: (float(out[0]), float(out[1])), x being float(out[0])
PointOf(out, x) ==
    IF ~x.ok THEN [err |-> "ValueError", point |-> <<>>]
    ELSE IF Len(out) < 2 THEN [err |-> "IndexError", point |-> <<>>]
    ELSE IF ~float(out[2]).ok THEN [err |-> "ValueError", point |-> <<>>]
    ELSE [err |-> "", point |-> <<x.val, float(out[2]).val>>]

\* lines 179-180 for one point of point_list
ParsePoint(point) == PointOf(Split(point, ","), float(Split(point, ",")[1]))

RECURSIVE ParsePoints(_, _, _)
RECURSIVE AddPoint(_, _, _, _)
\* the loop over point_list from its i-th point on: [err, points]
ParsePoints(point_list, i, points) ==
    IF i > Len(point_list) THEN [err |-> "", points |-> points]
    ELSE AddPoint(point_list, i, points, ParsePoint(point_list[i]))

\* component.points.append(p.point), or the exception p ended in
AddPoint(point_list, i, points, p) ==
    IF p.err # "" THEN [err |-> p.err, points |-> points]
    ELSE ParsePoints(point_list, i + 1, Append(points, p.point))

\* lines 151-155: a net token, v being int(net)
AddNet(st, net, v) ==
    IF ~v.ok
    THEN [st EXCEPT !.nets = Append(@, net), !.err = "ValueError"]
    ELSE [st EXCEPT !.nets = Append(@, net),
                    !.net_count = IF v.val > @ THEN v.val ELSE @]

\* line 158, c being create_component_by_name(item)
SetComponent(st, c) ==
    IF c.ok THEN [st EXCEPT !.component = c.component]
    ELSE [st EXCEPT !.err = "LookupError"]

\* lines 160, 162, 164, v being float(...)
SetLayX(st, v) ==
    IF v.ok THEN [st EXCEPT !.component.lay_x = v.val]
    ELSE [st EXCEPT !.err = "ValueError"]

SetLayY(st, v) ==
    IF v.ok THEN [st EXCEPT !.component.lay_y = v.val]
    ELSE [st EXCEPT !.err = "ValueError"]

SetRadius(st, v) ==
    IF v.ok THEN [st EXCEPT !.component.radius = v.val]
    ELSE [st EXCEPT !.err = "ValueError"]

\* lines 167, 171, v being strToSci(...)
SetLength(st, v) ==
    IF v.err = "" THEN [st EXCEPT !.component.length = v.val]
    ELSE [st EXCEPT !.err = v.err]

SetWidth(st, v) ==
    IF v.err = "" THEN [st EXCEPT !.component.width = Scale(v.val, 6)]
    ELSE [st EXCEPT !.err = v.err]

\* lines 177-180, r being the outcome of the loop over point_list
SetPoints(st, r) ==
    IF r.err = "" THEN [st EXCEPT !.component.points = r.points]
    ELSE [st EXCEPT !.err = r.err]

\* one item of line_elements[1:], on the locals st = [component, nets,
\* net_count, err] (net_count is self.net_count)
ParseItem(st, item) ==
    IF Contains("N$", item)
    THEN AddNet(st, Replace(item, "N$"), int(Replace(item, "N$")))
    ELSE IF st.component.tag = "None"
    THEN SetComponent(st, create_component_by_name(item))
    ELSE IF Contains("lay_x=", item)
    THEN SetLayX(st, float(Replace(item, "lay_x=")))
    ELSE IF Contains("lay_y=", item)
    THEN SetLayY(st, float(Replace(item, "lay_y=")))
    ELSE IF Contains("radius=", item)
    THEN SetRadius(st, float(Replace(item, "radius=")))
    ELSE IF Contains("wg_length=", item)
    THEN SetLength(st, strToSci(Replace(item, "wg_length=")))
    ELSE IF Contains("wg_width=", item)
    THEN SetWidth(st, strToSci(Replace(item, "wg_width=")))
    ELSE IF Contains("points=", item)
    THEN SetPoints(st,
             ParsePoints(Split(Replace(Replace(Replace(item, "points="), "\"[["), "]]\""),
                               "],["),
                         1, st.component.points))
    ELSE st

RECURSIVE ParseItems(_, _, _)
\* the loop `for item in line_elements[1:]`, stopped by the first exception
ParseItems(line_elements, i, st) ==
    IF i > Len(line_elements) \/ st.err # "" THEN st
    ELSE ParseItems(line_elements, i + 1, ParseItem(st, line_elements[i]))

\* lines 181-182, st being the locals after the loop: [err, self]
FinishLine(self, st) ==
    IF st.err # "" THEN [err |-> st.err, self |-> [self EXCEPT !.net_count = st.net_count]]
    ELSE IF st.component.tag = "None"
    THEN [err |-> "AttributeError", self |-> [self EXCEPT !.net_count = st.net_count]]
    ELSE [err |-> "",
          self |-> [component_list |->
                        Append(self.component_list, [st.component EXCEPT !.nets = st.nets]),
                    net_count |-> st.net_count]]

\* _parse_line on self = [component_list, net_count]: [err, self]
_parse_line(self, line_elements) ==
    FinishLine(self, ParseItems(line_elements, 2,
                                [component |-> NoComponent, nets |-> <<>>,
                                 net_count |-> self.net_count, err |-> ""]))

(***************************************************************************)
(* ObjectModelNetlist.__init__ and parse_text.  A text is the sequence of  *)
(* its lines (text.splitlines()).                                          *)
(***************************************************************************)
ObjectModelNetlist == [component_list |-> <<>>, net_count |-> 0]

RECURSIVE ParseLines(_, _, _)
RECURSIVE ParseElements(_, _, _, _)
RECURSIVE AfterLine(_, _, _)
\* the loop `for line in lines` from line i on: [err, self]
ParseLines(self, lines, i) ==
    IF i > Len(lines) THEN [err |-> "", self |-> self]
    ELSE ParseElements(self, lines, i, SplitWs(lines[i]))

\* lines 125-131, elements being line.split()
ParseElements(self, lines, i, elements) ==
    IF Len(elements) > 0
    THEN IF Contains(".ends", elements[1])
         THEN [err |-> "", self |-> self]
         ELSE IF Contains(".", elements[1]) \/ Contains("*", elements[1])
         THEN ParseLines(self, lines, i + 1)
         ELSE AfterLine(_parse_line(self, elements), lines, i)
    ELSE ParseLines(self, lines, i + 1)

\* an exception of _parse_line ends parse_text; otherwise the next line
AfterLine(r, lines, i) ==
    IF r.err # "" THEN r ELSE ParseLines(r.self, lines, i + 1)

\* parse_text(text) on self: [err, self]
parse_text(self, lines) == ParseLines(self, lines, 1)

(***************************************************************************)
(* ObjectModelNetlist.get_external_components.                             *)
(***************************************************************************)
\* any(int(x) < 0 for x in nets)
HasExternal(nets) == \E i \in 1..Len(nets) : int(nets[i]).val < 0

IsExternalComponent(component) == HasExternal(component.nets)

get_external_components(self) == SelectSeq(self.component_list, IsExternalComponent)

(***************************************************************************)
(* ComponentSimulation.  A unit is [nets, f, s, alias]: s is the port      *)
(* dimension of its s-matrix; alias is 0 when the unit owns its net list,  *)
(* and k when the list is the very list object of the netlist's k-th       *)
(* component record, so that a deletion from it shows in that record.      *)
(***************************************************************************)
\* component.get_s_params(): the frequency vector and an s-matrix with one
\* port per net of the component
get_s_params(component) == [f |-> "f", s |-> Len(component.nets)]

\* ComponentSimulation with `self.nets = component.nets`: no deep copy, the
\* unit shares the record's list
ComponentSimulationShared(self, k) ==
    LET component == self.component_list[k]
    IN  [nets  |-> component.nets,
         alias |-> k,
         f     |-> get_s_params(component).f,
         s     |-> get_s_params(component).s]

\* ComponentSimulation(component) for the k-th record of the netlist
ComponentSimulation(self, k) ==
    LET component == self.component_list[k]
    IN  [nets  |-> component.nets,
         alias |-> 0,
         f     |-> get_s_params(component).f,
         s     |-> get_s_params(component).s]

\* del xs[i], i counted from 0 and within range
DelAt(xs, i) == SubSeq(xs, 1, i) \o SubSeq(xs, i + 2, Len(xs))

\* the net lists of the netlist's records after `del unit.nets[i]`
DelShared(records, unit, i) ==
    IF unit.alias = 0 THEN records
    ELSE [records EXCEPT ![unit.alias].nets = DelAt(@, i)]

(***************************************************************************)
(* _match_ports.  Indices are counted from 0, as in the source.            *)
(***************************************************************************)
RECURSIVE Positions(_, _, _)
\* [i for i, x in enumerate(nets) if x == net_id], from position i on
Positions(nets, net_id, i) ==
    IF i >= Len(nets) THEN <<>>
    ELSE (IF nets[i + 1] = net_id THEN <<i>> ELSE <<>>)
         \o Positions(nets, net_id, i + 1)

RECURSIVE FilteredComps(_, _, _)
\* comp_idx: the indices of the units holding net_id, from index c on
FilteredComps(net_id, component_list, c) ==
    IF c >= Len(component_list) THEN <<>>
    ELSE (IF Len(Positions(component_list[c + 1].nets, net_id, 0)) > 0
          THEN <<c>> ELSE <<>>)
         \o FilteredComps(net_id, component_list, c + 1)

RECURSIVE NetIdx(_, _, _, _)
\* net_idx: the positions of net_id in each filtered unit, concatenated
NetIdx(net_id, component_list, comp_idx, j) ==
    IF j > Len(comp_idx) THEN <<>>
    ELSE Positions(component_list[comp_idx[j] + 1].nets, net_id, 0)
         \o NetIdx(net_id, component_list, comp_idx, j + 1)

\* line 313, after lines 310-311 on comp_idx
PickPorts(comp_idx, net_idx) ==
    IF Len(comp_idx) < 2 \/ Len(net_idx) < 2
    THEN [err |-> "IndexError", ca |-> 0, ia |-> 0, cb |-> 0, ib |-> 0]
    ELSE [err |-> "", ca |-> comp_idx[1], ia |-> net_idx[1],
          cb |-> comp_idx[2], ib |-> net_idx[2]]

\* _match_ports without lines 310-311: a lone unit is not entered twice
MatchFilteredNoDup(net_id, component_list, filtered) ==
    PickPorts(filtered, NetIdx(net_id, component_list, filtered, 1))

\* lines 307-313, filtered being comp_idx as line 306 leaves it
MatchFiltered(net_id, component_list, filtered) ==
    PickPorts(IF Len(filtered) = 1 THEN filtered \o filtered ELSE filtered,
              NetIdx(net_id, component_list, filtered, 1))

\* _match_ports(net_id, component_list): [err, ca, ia, cb, ib]
_match_ports(net_id, component_list) ==
    MatchFiltered(net_id, component_list, FilteredComps(net_id, component_list, 0))

(***************************************************************************)
(* skrf's innerconnect_s and connect_s, on port dimensions.                *)
(***************************************************************************)
\* rf.innerconnect_s(A, k, l): [err, s]
innerconnect_s(A, k, l) ==
    IF k > A - 1 \/ l > A - 1 THEN [err |-> "ValueError", s |-> A]
    ELSE [err |-> "", s |-> A - Cardinality({k, l})]

\* rf.connect_s(A, k, B, l): [err, s]
connect_s(A, k, B, l) ==
    IF k > A - 1 \/ l > B - 1 THEN [err |-> "ValueError", s |-> 0]
    ELSE innerconnect_s(A + B, k, A + l)

(***************************************************************************)
(* connect_circuit: the two branches of the loop body.  Each yields        *)
(* [err, component_list, records]: the live unit list and the net lists    *)
(* of the netlist's records after the step.                                *)
(***************************************************************************)
\* the self-loop branch without its second deletion (lines 375-378)
SelfConnectOneDel(component_list, records, ca, ia, ib) ==
    LET unit == component_list[ca + 1]
        s    == innerconnect_s(unit.s, ia, ib)
    IN  IF s.err # ""
        THEN [err |-> s.err, component_list |-> component_list, records |-> records]
        ELSE [err |-> "",
              component_list |->
                  [component_list EXCEPT
                      ![ca + 1] = [unit EXCEPT !.nets = DelAt(unit.nets, ia), !.s = s.s]],
              records |-> DelShared(records, unit, ia)]

\* lines 373-378
SelfConnect(component_list, records, ca, ia, ib) ==
    LET unit == component_list[ca + 1]
        s    == innerconnect_s(unit.s, ia, ib)
        ib2  == IF ia < ib THEN ib - 1 ELSE ib
        nets == DelAt(DelAt(unit.nets, ia), ib2)
    IN  IF s.err # ""
        THEN [err |-> s.err, component_list |-> component_list, records |-> records]
        ELSE IF ia >= Len(unit.nets) \/ ib2 >= Len(unit.nets) - 1
        THEN [err |-> "IndexError", component_list |-> component_list,
              records |-> records]
        ELSE [err |-> "",
              component_list |->
                  [component_list EXCEPT ![ca + 1] = [unit EXCEPT !.nets = nets, !.s = s.s]],
              records |-> DelShared(DelShared(records, unit, ia), unit, ib2)]

\* the cascade branch with line 387 ahead of lines 385-386: the net lists
\* are concatenated before the connected net is deleted from them
CascadeConcatFirst(component_list, records, ca, ia, cb, ib) ==
    LET A    == component_list[ca + 1]
        B    == component_list[cb + 1]
        s    == connect_s(A.s, ia, B.s, ib)
        cb2  == IF ca < cb THEN cb - 1 ELSE cb
        combination == [nets  |-> A.nets \o B.nets,
                        alias |-> 0,
                        f     |-> component_list[1].f,
                        s     |-> s.s]
    IN  IF s.err # ""
        THEN [err |-> s.err, component_list |-> component_list, records |-> records]
        ELSE [err |-> "",
              component_list |->
                  Append(DelAt(DelAt(component_list, ca), cb2), combination),
              records |-> DelShared(DelShared(records, A, ia), B, ib)]

\* the cascade branch with `del component_list[cb]` whatever ca is (lines
\* 389-392): past the last unit it is an IndexError, else it deletes the
\* unit after B
CascadeNoShift(component_list, records, ca, ia, cb, ib) ==
    LET A    == component_list[ca + 1]
        B    == component_list[cb + 1]
        s    == connect_s(A.s, ia, B.s, ib)
        combination == [nets  |-> DelAt(A.nets, ia) \o DelAt(B.nets, ib),
                        alias |-> 0,
                        f     |-> component_list[1].f,
                        s     |-> s.s]
    IN  IF s.err # ""
        THEN [err |-> s.err, component_list |-> component_list, records |-> records]
        ELSE IF cb >= Len(component_list) - 1
        THEN [err |-> "IndexError", component_list |-> component_list,
              records |-> records]
        ELSE [err |-> "",
              component_list |->
                  Append(DelAt(DelAt(component_list, ca), cb), combination),
              records |-> DelShared(DelShared(records, A, ia), B, ib)]

\* lines 382-393
Cascade(component_list, records, ca, ia, cb, ib) ==
    LET A    == component_list[ca + 1]
        B    == component_list[cb + 1]
        s    == connect_s(A.s, ia, B.s, ib)
        cb2  == IF ca < cb THEN cb - 1 ELSE cb
        combination == [nets  |-> DelAt(A.nets, ia) \o DelAt(B.nets, ib),
                        alias |-> 0,
                        f     |-> component_list[1].f,
                        s     |-> s.s]
    IN  IF s.err # ""
        THEN [err |-> s.err, component_list |-> component_list, records |-> records]
        ELSE IF ia >= Len(A.nets) \/ ib >= Len(B.nets)
        THEN [err |-> "IndexError", component_list |-> component_list,
              records |-> records]
        ELSE [err |-> "",
              component_list |->
                  Append(DelAt(DelAt(component_list, ca), cb2), combination),
              records |-> DelShared(DelShared(records, A, ia), B, ib)]

\* lines 372-393, m being what _match_ports returned
Connect(component_list, records, m) ==
    IF m.err # ""
    THEN [err |-> m.err, component_list |-> component_list, records |-> records]
    ELSE IF m.ca = m.cb
    THEN SelfConnect(component_list, records, m.ca, m.ia, m.ib)
    ELSE Cascade(component_list, records, m.ca, m.ia, m.cb, m.ib)

\* lines 369-393: one iteration of the loop, for net n
LoopBody(component_list, records, n) ==
    Connect(component_list, records, _match_ports(str(n), component_list))

(***************************************************************************)
(* Inputs.  A circuit is what spice_netlist_export writes and parse_text   *)
(* reads back: one record per component, its nets written str(id); the     *)
(* nets that leave the circuit are numbered -1, -2, ... in the order they  *)
(* are written (ioports), and net_count is the highest id read, 0 at       *)
(* least.                                                                  *)
(***************************************************************************)
RECURSIVE Sum(_)
Sum(sz) == IF Len(sz) = 0 THEN 0 ELSE sz[1] + Sum(Tail(sz))

\* the port counts of the components of a circuit, each with a pin at least
Shapes ==
    {sz \in UNION {[1..k -> 1..MaxPorts] : k \in 0..MaxComps} : Sum(sz) <= MaxPorts}

\* a port of a generated circuit: an internal net id, or -1 for a net that
\* leaves the circuit
PortChoices == (-1)..MaxNet

\* the number of external ports among ports[1..k]
Externals(ports, k) == Cardinality({i \in 1..k : ports[i] < 0})

\* the net id written for the i-th port
NetId(ports, i) == IF ports[i] < 0 THEN -Externals(ports, i) ELSE ports[i]

\* the record of the j-th component: its nets are the ports after Sum(sz[1..j-1])
CircuitComponent(sz, ports, j) ==
    [create_component_by_name("ebeam_y_1550").component EXCEPT
        !.nets = [i \in 1..sz[j] |-> str(NetId(ports, Sum(SubSeq(sz, 1, j - 1)) + i))]]

\* the ObjectModelNetlist parse_text leaves for the circuit
Circuit(sz, ports) ==
    [component_list |-> [j \in 1..Len(sz) |-> CircuitComponent(sz, ports, j)],
     net_count |-> IF \E i \in 1..Len(ports) : ports[i] > 0
                   THEN CHOOSE m \in 1..MaxNet :
                            /\ \E i \in 1..Len(ports) : ports[i] = m
                            /\ \A i \in 1..Len(ports) : ports[i] <= m
                   ELSE 0]

\* sample lines of a netlist text
LinePool ==
    { "",
      "* Spice output from KLayout SiEPIC-Tools",
      ".subckt top",
      ".ends top",
      " ebeam_wg_integral_1550_1 N$-1 N$0 ebeam_wg_integral_1550 wg_length=3u wg_width=500n lay_x=1.5 lay_y=-2",
      " ebeam_bdc_te1550_2 N$0 N$01 ebeam_bdc_te1550 radius=5 points=\"[[0,0],[1.5,2]]\" library=x",
      " ebeam_y_1550_3 N$1 N$1 ebeam_y_1550",
      " ebeam_y_1550_4 ebeam_y_1550 lay_x=0 lay_y=0",
      " wg.5 N$0 N$-2 ebeam_wg_integral_1550",
      " y*6 N$2 ebeam_y_1550",
      " x.ends N$1 ebeam_y_1550",
      " c7 N$3 ebeam_unknown",
      " c8 N$4",
      " c9 N$x ebeam_y_1550",
      " c10 ebeam_wg_integral_1550 wg_length=5 N$5" }

PoolTexts == UNION {[1..k -> LinePool] : k \in 0..MaxLines}

(***************************************************************************)
(* State.                                                                  *)
(***************************************************************************)
VARIABLES
    text,            \* the netlist text, as its lines
    netlist,         \* the ObjectModelNetlist: [component_list, net_count]
    calls,           \* the calls of parse_text made so far
    perr,            \* the exception the last parse_text ended in, "" for none
    first,           \* the ObjectModelNetlist as the first parse_text left it
    pc,              \* "new", "parsed", then connect_circuit: "loop", "done", "error"
    component_list,  \* connect_circuit's local list of live units
    n,               \* connect_circuit's loop variable
    result           \* what connect_circuit returned

vars == <<text, netlist, calls, perr, first, pc, component_list, n, result>>

NoResult == [tag |-> "Pending", unit |-> <<>>, external |-> <<>>]

ReturnedNone == [tag |-> "None", unit |-> <<>>, external |-> <<>>]

\* a parsed circuit, before connect_circuit
Init ==
    \E sz \in Shapes : \E ports \in [1..Sum(sz) -> PortChoices] :
        /\ text = <<>>
        /\ netlist = Circuit(sz, ports)
        /\ calls = 1
        /\ perr = ""
        /\ first = netlist
        /\ pc = "parsed"
        /\ component_list = <<>>
        /\ n = 0
        /\ result = NoResult

\* a fresh ObjectModelNetlist and a text of sample lines
InitPool ==
    \E t \in PoolTexts :
        /\ text = t
        /\ netlist = ObjectModelNetlist
        /\ calls = 0
        /\ perr = ""
        /\ first = ObjectModelNetlist
        /\ pc = "new"
        /\ component_list = <<>>
        /\ n = 0
        /\ result = NoResult

(***************************************************************************)
(* Actions.                                                                *)
(***************************************************************************)
\* netlist.parse_text(text), the first call
ParseText ==
    /\ pc = "new"
    /\ \E r \in {parse_text(netlist, text)} :
           /\ netlist' = r.self
           /\ first' = r.self
           /\ perr' = r.err
    /\ calls' = 1
    /\ pc' = "parsed"
    /\ UNCHANGED <<text, component_list, n, result>>

\* netlist.parse_text(text) once more, on the same object
ParseAgain ==
    /\ pc = "parsed" /\ calls = 1
    /\ \E r \in {parse_text(netlist, text)} :
           /\ netlist' = r.self
           /\ perr' = r.err
    /\ calls' = 2
    /\ UNCHANGED <<text, first, pc, component_list, n, result>>

\* ObjectModelNetlist().parse_text(text): the second call, on a new object
ParseAgainFresh ==
    /\ pc = "parsed" /\ calls = 1
    /\ \E r \in {parse_text(ObjectModelNetlist, text)} :
           /\ netlist' = r.self
           /\ perr' = r.err
    /\ calls' = 2
    /\ UNCHANGED <<text, first, pc, component_list, n, result>>

\* connect_circuit(netlist), lines 364-367: up to the loop
ConnectStart ==
    /\ pc = "parsed" /\ perr = ""
    /\ IF netlist.net_count = 0
       THEN /\ pc' = "done"
            /\ result' = ReturnedNone
            /\ UNCHANGED component_list
       ELSE /\ pc' = "loop"
            /\ component_list' =
                   [k \in 1..Len(netlist.component_list) |-> ComponentSimulation(netlist, k)]
            /\ UNCHANGED result
    /\ n' = 0
    /\ UNCHANGED <<text, netlist, calls, perr, first>>

\* one iteration of `for n in range(0, netlist.net_count + 1)`
LoopStep ==
    /\ pc = "loop" /\ n <= netlist.net_count
    /\ \E r \in {LoopBody(component_list, netlist.component_list, n)} :
           IF r.err # ""
           THEN /\ pc' = "error"
                /\ UNCHANGED <<netlist, component_list, n>>
           ELSE /\ component_list' = r.component_list
                /\ netlist' = [netlist EXCEPT !.component_list = r.records]
                /\ n' = n + 1
                /\ pc' = pc
    /\ UNCHANGED <<text, calls, perr, first, result>>

\* line 395: return component_list[0], netlist.get_external_components()
Return ==
    /\ pc = "loop" /\ n > netlist.net_count
    /\ IF Len(component_list) = 0
       THEN pc' = "error" /\ UNCHANGED result
       ELSE /\ pc' = "done"
            /\ result' = [tag |-> "Result", unit |-> component_list[1],
                          external |-> get_external_components(netlist)]
    /\ UNCHANGED <<text, netlist, calls, perr, first, component_list, n>>

Next == ConnectStart \/ LoopStep \/ Return

\* connect a parsed circuit
Spec == Init /\ [][Next]_vars

NextParse == ParseText \/ ParseAgain \/ ParseAgainFresh

\* parse a text of sample lines, twice
ParseSpec == InitPool /\ [][NextParse]_vars

(***************************************************************************)
(* Vocabulary of the properties.                                           *)
(***************************************************************************)
\* the number of ports of the units (or records) xs that hold net id x
RefCount(xs, x) ==
    Sum([k \in 1..Len(xs) |-> Cardinality({i \in 1..Len(xs[k].nets) : xs[k].nets[i] = x})])

\* a negative (external) net id
IsExternal(x) == int(x).val < 0

\* every entry of nets is external
AllExternal(nets) == \A i \in 1..Len(nets) : IsExternal(nets[i])

\* the internal net ids referenced in xs
InternalIds(xs) ==
    UNION {{xs[k].nets[i] : i \in {i \in 1..Len(xs[k].nets) : ~IsExternal(xs[k].nets[i])}}
           : k \in 1..Len(xs)}

\* the net lists of xs, entry by entry
NetLists(xs) == [k \in 1..Len(xs) |-> xs[k].nets]

\* the port counts of xs summed, by net list and by s-matrix dimension
TotalNets(xs) == Sum([k \in 1..Len(xs) |-> Len(xs[k].nets)])

TotalDim(xs) == Sum([k \in 1..Len(xs) |-> xs[k].s])

\* each net id in 0..net_count is referenced by exactly two ports
WellFormed ==
    \A k \in 0..netlist.net_count : RefCount(netlist.component_list, str(k)) = 2

\* records i and j share an internal net
Linked(i, j) ==
    \E x \in InternalIds(<<netlist.component_list[i]>>) :
        x \in InternalIds(<<netlist.component_list[j]>>)

RECURSIVE Group(_)
\* the records linked to those of S, directly or through others
Group(S) ==
    LET T == S \cup {j \in 1..Len(netlist.component_list) : \E i \in S : Linked(i, j)}
    IN  IF T = S THEN S ELSE Group(T)

\* the components of the netlist are all linked through internal nets
Connected ==
    /\ Len(netlist.component_list) > 0
    /\ Group({1}) = 1..Len(netlist.component_list)

\* connect_circuit has processed nets 0..net_count
Processed ==
    \/ pc = "loop" /\ n > netlist.net_count
    \/ pc = "done" /\ result.tag = "Result"

\* connect_circuit is in or past its loop
Connecting == pc = "loop" \/ (pc = "done" /\ result.tag = "Result")

\* the external net ids a circuit of the model can hold
ExternalIds == {str(-k) : k \in 1..MaxPorts}

\* xs and ys hold every external net id equally often
SameExternals(xs, ys) == \A x \in ExternalIds : RefCount(xs, x) = RefCount(ys, x)

Remaining(nets) == SelectSeq(nets, IsExternal)

\* the netlist is two components sharing the single internal net 0, their
\* other nets external
TwoOnNetZero ==
    /\ Len(netlist.component_list) = 2
    /\ \A k \in 1..2 :
           /\ RefCount(<<netlist.component_list[k]>>, "0") = 1
           /\ InternalIds(<<netlist.component_list[k]>>) = {"0"}

\* C2: for two components sharing the single internal net 0, connect_circuit
\* yields a unit whose nets are A's remaining nets followed by B's and whose
\* port count is the sum of the two port counts minus two.
C2_Cascade ==
    (pc = "done" /\ TwoOnNetZero) =>
        /\ result.tag = "Result"
        /\ result.unit.nets = Remaining(netlist.component_list[1].nets)
                              \o Remaining(netlist.component_list[2].nets)
        /\ result.unit.s = Len(netlist.component_list[1].nets)
                           + Len(netlist.component_list[2].nets) - 2

(***************************************************************************)
(* C3.                                                                     *)
(***************************************************************************)
\* C3: for the netlist of one two-port component with both ports on net 0,
\* connect_circuit yields a unit with zero ports and an empty net list.
C3_SelfLoop ==
    (pc = "done" /\ NetLists(netlist.component_list) = <<(<<"0", "0">>)>>) =>
        /\ result.tag = "Result"
        /\ result.unit.nets = <<>>
        /\ result.unit.s = 0

(***************************************************************************)
(* C4.                                                                     *)
(***************************************************************************)
\* C4: an iteration for a net n that zero, or three or more, ports of the
\* live units reference ends connect_circuit in an error, with no merge.
C4_Rejects ==
    [][(pc = "loop" /\ n <= netlist.net_count
        /\ RefCount(component_list, str(n)) \notin {1, 2})
       => (pc' = "error" /\ component_list' = component_list)]_vars

(***************************************************************************)
(* C5.                                                                     *)
(***************************************************************************)
\* what C5 says of the answer m for net id x on the unit list xs
Matches(xs, x, m) ==
    /\ m.err = ""
    /\ xs[m.ca + 1].nets[m.ia + 1] = x
    /\ xs[m.cb + 1].nets[m.ib + 1] = x
    /\ <<m.ca, m.ia>> # <<m.cb, m.ib>>
    /\ m.ca = m.cb <=> \E k \in 1..Len(xs) : RefCount(<<xs[k]>>, x) = 2
    /\ IF m.ca = m.cb THEN m.ia < m.ib ELSE m.ca < m.cb

\* C5: for every live unit list and every net id that occurs exactly twice
\* in it, _match_ports returns the two places of the id, in order.
C5_MatchPorts ==
    pc = "loop" =>
        \A k \in 0..MaxNet :
            RefCount(component_list, str(k)) = 2 =>
                Matches(component_list, str(k), _match_ports(str(k), component_list))

\* after a step of the loop, a net sits twice on the second of two units,
\* with another net between its two places
C5_Witness ==
    /\ pc = "loop" /\ n > 0
    /\ \E k \in 0..MaxNet :
           /\ RefCount(component_list, str(k)) = 2
           /\ _match_ports(str(k), component_list).ca = 1
           /\ _match_ports(str(k), component_list).cb = 1
           /\ _match_ports(str(k), component_list).ib
                  > _match_ports(str(k), component_list).ia + 1

(***************************************************************************)
(* C6.                                                                     *)
(***************************************************************************)
\* the public fields C6 compares
Records(self) ==
    [k \in 1..Len(self.component_list) |->
        [type |-> self.component_list[k].type, nets |-> self.component_list[k].nets]]

\* C6: after a second parse_text of the same text, on the same object or on
\* a new one, the records and net_count are those the first call left.
C6_Idempotent ==
    calls = 2 => (Records(netlist) = Records(first) /\ netlist.net_count = first.net_count)

(***************************************************************************)
(* C7.                                                                     *)
(***************************************************************************)
\* C7: during connect_circuit every live unit's net list is as long as the
\* port dimension of its s-matrix.
C7_NetsMatchMatrix ==
    Connecting =>
        /\ \A k \in 1..Len(component_list) :
               Len(component_list[k].nets) = component_list[k].s
        /\ pc = "done" => Len(result.unit.nets) = result.unit.s

\* both a cascade and a self-loop step are behind, ports are left
C7_Witness ==
    /\ pc = "loop" /\ n = 2
    /\ Len(component_list) < Len(netlist.component_list)
    /\ TotalNets(component_list) = TotalNets(netlist.component_list) - 4
    /\ TotalNets(component_list) > 0

(***************************************************************************)
(* C8.                                                                     *)
(***************************************************************************)
\* C8: on a well-formed netlist each iteration of the loop leaves the live
\* units referencing the internal nets of before but the net n processed,
\* and two ports fewer in total.
C8_OneNetPerStep ==
    [][(pc = "loop" /\ n <= netlist.net_count /\ WellFormed)
       => /\ pc' = "loop" /\ n' = n + 1
          /\ str(n) \in InternalIds(component_list)
          /\ InternalIds(component_list') = InternalIds(component_list) \ {str(n)}
          /\ TotalNets(component_list') = TotalNets(component_list) - 2
          /\ TotalDim(component_list') = TotalDim(component_list) - 2]_vars

\* a well-formed netlist with one net processed and one to go, on two units
C8_Witness ==
    /\ pc = "loop" /\ WellFormed
    /\ n = 1 /\ n <= netlist.net_count
    /\ Len(component_list) = 2
    /\ TotalNets(component_list) = TotalNets(netlist.component_list) - 2

(***************************************************************************)
(* C9.                                                                     *)
(***************************************************************************)
\* elements[0].startswith(prefix)
StartsWith(prefix, s) == Len(s) >= Len(prefix) /\ SubSeq(s, 1, Len(prefix)) = prefix

RECURSIVE ComponentLines(_, _)
\* the lines from the i-th on that C9 calls component lines: before the
\* first line starting with .ends, not empty, not starting with . or *
ComponentLines(lines, i) ==
    IF i > Len(lines) THEN <<>>
    ELSE LET elements == SplitWs(lines[i])
         IN  IF Len(elements) = 0 THEN ComponentLines(lines, i + 1)
             ELSE IF StartsWith(".ends", elements[1]) THEN <<>>
             ELSE IF StartsWith(".", elements[1]) \/ StartsWith("*", elements[1])
             THEN ComponentLines(lines, i + 1)
             ELSE <<lines[i]>> \o ComponentLines(lines, i + 1)

\* C9: a parse_text that ends without exception leaves one record per
\* component line, in line order, lines being classified by how their
\* first token starts.
C9_ClassifiedByStart ==
    (calls = 1 /\ perr = "") =>
        LET expected == ComponentLines(text, 1)
        IN  /\ Len(netlist.component_list) = Len(expected)
            /\ \A k \in 1..Len(expected) :
                   <<netlist.component_list[k]>> =
                       _parse_line(ObjectModelNetlist, SplitWs(expected[k])).self.component_list

=============================================================================
